---- MODULE Spec2Model ----
(***************************************************************************)
(* A model of the THOR routing engine (src/src/THOR.h, src/src/THOR.cpp):  *)
(* the wire codec, the neighbor table, the Internet Gravity scorer and the *)
(* data plane with its pending queue.                                      *)
(*                                                                         *)
(* A uint32_t v is modelled as the pair <<v \div 65536, v % 65536>> of its *)
(* 16-bit halves, because 0xFFFFFFFF does not fit TLC's integers.  The     *)
(* wire bytes are those of the packed struct on a little-endian target     *)
(* with bit-fields allocated from the least significant bit.               *)
(***************************************************************************)
EXTENDS Integers, Sequences, FiniteSets, TLC

VARIABLES
    neighborTable,  \* std::map<uint32_t, NeighborInfo> THOR::neighborTable
    packetQueue,    \* std::vector<Packet> THOR::packetQueue
    now,            \* what std::time(nullptr) gives, in seconds
    last,           \* the latest call on the engine and what it returned
    net             \* several THOR objects and the frames in flight between them

vars == <<neighborTable, packetQueue, now, last, net>>

(***************************************************************************)
(* Program constants                                                       *)
(***************************************************************************)
HeaderSize == 22

QueueCap == 50

DefaultTTL == 15

ExpirySeconds == 30

HELLO == 1

ACK == 2

DATA == 3

BROADCAST_ID == <<65535, 65535>>

(***************************************************************************)
(* Bounds of the model                                                     *)
(***************************************************************************)
\* Spec offers SendPacket and HandleData only while the queue is shorter
MaxQueue == 2

\* the clock stops advancing here
MaxTime == 61

\* SpecScorer draws its tables with at most this many entries
MaxScorerNeighbors == 2

\* engines in the network of SpecNet
MaxEngines == 2

(***************************************************************************)
(* uint32_t                                                                *)
(***************************************************************************)
U32(hi, lo) == <<hi, lo>>

Zero == U32(0, 0)

\* operator< on uint32_t, the order of std::map<uint32_t, NeighborInfo>
Less(a, b) == a[1] < b[1] \/ (a[1] = b[1] /\ a[2] < b[2])

\* the four bytes of a uint32_t in network order, most significant first
U32Bytes_BigEndian(v) == <<v[1] \div 256, v[1] % 256, v[2] \div 256, v[2] % 256>>

\* the four bytes of a uint32_t in memory, least significant first
U32Bytes(v) == <<v[2] % 256, v[2] \div 256, v[1] % 256, v[1] \div 256>>

BytesU32(b) == <<b[3] + 256 * b[4], b[1] + 256 * b[2]>>

(***************************************************************************)
(* struct flags, struct Header, struct Packet                              *)
(***************************************************************************)
\* the one byte of struct flags: ttl : 5, intneighbour : 1, visited : 1, myInternet : 1
FlagsByte(f) == f.ttl + 32 * f.intneighbour + 64 * f.visited + 128 * f.myInternet

ByteFlags(b) ==
    [ttl |-> b % 32, intneighbour |-> (b \div 32) % 2,
     visited |-> (b \div 64) % 2, myInternet |-> (b \div 128) % 2]

\* Header header = {};
ZeroHeader ==
    [type |-> 0,
     flagsAndTTL |-> [ttl |-> 0, intneighbour |-> 0, visited |-> 0, myInternet |-> 0],
     destinationId |-> Zero, senderId |-> Zero, originId |-> Zero,
     nextHopId |-> Zero, sequence |-> Zero]

\* Packet packet = {};
ZeroPacket == [header |-> ZeroHeader, payload |-> <<>>]

SerializeHeader(header) ==
    <<header.type, FlagsByte(header.flagsAndTTL)>>
        \o U32Bytes(header.destinationId) \o U32Bytes(header.senderId)
        \o U32Bytes(header.originId) \o U32Bytes(header.nextHopId)
        \o U32Bytes(header.sequence)

Serialize(packet) == SerializeHeader(packet.header) \o packet.payload

\* memcpy(&header, data.data(), sizeof(Header))
HeaderOfBytes(data) ==
    [type |-> data[1],
     flagsAndTTL |-> ByteFlags(data[2]),
     destinationId |-> BytesU32(SubSeq(data, 3, 6)),
     senderId |-> BytesU32(SubSeq(data, 7, 10)),
     originId |-> BytesU32(SubSeq(data, 11, 14)),
     nextHopId |-> BytesU32(SubSeq(data, 15, 18)),
     sequence |-> BytesU32(SubSeq(data, 19, 22))]

\* returns [ok, header]; outheader is left as it was when the data is too short
DeserializeHeader(data, outheader) ==
    IF Len(data) < HeaderSize
    THEN [ok |-> FALSE, header |-> outheader]
    ELSE [ok |-> TRUE, header |-> HeaderOfBytes(data)]

\* returns [ok, packet]; outPacket is left as it was when the data is too short
Deserialize(data, outPacket) ==
    IF Len(data) < HeaderSize
    THEN [ok |-> FALSE, packet |-> outPacket]
    ELSE [ok |-> TRUE,
          packet |-> [header |-> HeaderOfBytes(data),
                      payload |-> SubSeq(data, HeaderSize + 1, Len(data))]]

CreateHello(DestId, SenderId, OriginId, Sequence) ==
    SerializeHeader(
        [type |-> HELLO,
         flagsAndTTL |-> [ttl |-> 1, intneighbour |-> 0, visited |-> 0, myInternet |-> 0],
         destinationId |-> DestId, senderId |-> SenderId, originId |-> OriginId,
         nextHopId |-> BROADCAST_ID, sequence |-> Sequence])

CreateACK(DestId, SenderId, OriginId, NextHopId, Sequence, myinternet, intneighbour) ==
    SerializeHeader(
        [type |-> ACK,
         flagsAndTTL |-> [ttl |-> 1,
                          intneighbour |-> IF intneighbour THEN 1 ELSE 0,
                          visited |-> 0,
                          myInternet |-> IF myinternet THEN 1 ELSE 0],
         destinationId |-> DestId, senderId |-> SenderId, originId |-> OriginId,
         nextHopId |-> NextHopId, sequence |-> Sequence])

HandleHello(data, outheader) == DeserializeHeader(data, outheader)

HandleAck(data, outheader) == DeserializeHeader(data, outheader)

(***************************************************************************)
(* The neighbor table: a function from the stored node ids to NeighborInfo *)
(***************************************************************************)
EmptyTable == [id \in {} |-> 0]

NeighborInfo(lastSeen, rssi, hasInternetDirect, hasInternetIndirect, isVisited) ==
    [lastSeen |-> lastSeen, rssi |-> rssi, hasInternetDirect |-> hasInternetDirect,
     hasInternetIndirect |-> hasInternetIndirect, isVisited |-> isVisited]

\* neighborTable[nodeId] = {time(nullptr), rssi, ...}: insert or overwrite
NeighborStore(table, nodeId, rssi, hasInternetDirect, hasInternetIndirect, isVisited, time) ==
    [id \in DOMAIN table \cup {nodeId} |->
        IF id = nodeId
        THEN NeighborInfo(time, rssi, hasInternetDirect, hasInternetIndirect, isVisited)
        ELSE table[id]]

\* an expiry that already erases an entry seen exactly 30 seconds ago
RemoveOld_AtThirty(table, time) ==
    [id \in {k \in DOMAIN table : ~(time - table[k].lastSeen >= ExpirySeconds)} |->
        table[id]]

\* erase every entry with difftime(now, lastSeen) > 30.0
RemoveOld(table, time) ==
    [id \in {k \in DOMAIN table : ~(time - table[k].lastSeen > ExpirySeconds)} |->
        table[id]]

\* a marking that writes a whole new entry for the hop
MarkVisited_Overwrites(table, bestHop) ==
    [id \in DOMAIN table \cup {bestHop} |->
        IF id = bestHop THEN NeighborInfo(0, 0, FALSE, FALSE, TRUE) ELSE table[id]]

\* neighborTable[bestHop].isVisited = true; operator[] inserts a zeroed entry
\* when the key is absent
MarkVisited(table, bestHop) ==
    [id \in DOMAIN table \cup {bestHop} |->
        IF id = bestHop
        THEN IF bestHop \in DOMAIN table
             THEN [table[bestHop] EXCEPT !.isVisited = TRUE]
             ELSE NeighborInfo(0, 0, FALSE, FALSE, TRUE)
        ELSE table[id]]

(***************************************************************************)
(* The scorer                                                              *)
(***************************************************************************)
\* a scorer that ranks indirect internet above direct internet
CurrentScore_IndirectFirst(info) ==
    LET base == IF info.hasInternetIndirect THEN 300
                ELSE IF info.hasInternetDirect THEN 200
                ELSE IF info.isVisited THEN 10
                ELSE 100
    IN  IF info.rssi > -50 THEN base - 50
        ELSE IF info.rssi <= -50 /\ info.rssi >= -80 THEN base + 50
        ELSE base - 20

CurrentScore(info) ==
    LET base == IF info.hasInternetDirect THEN 300
                ELSE IF info.hasInternetIndirect THEN 200
                ELSE IF info.isVisited THEN 10
                ELSE 100
    IN  IF info.rssi > -50 THEN base - 50
        ELSE IF info.rssi <= -50 /\ info.rssi >= -80 THEN base + 50
        ELSE base - 20

\* the keys of the map in iteration order (ascending)
RECURSIVE KeysInOrder(_)
KeysInOrder(ids) ==
    IF ids = {} THEN <<>>
    ELSE LET first == CHOOSE a \in ids : \A b \in ids \ {a} : Less(a, b)
         IN  <<first>> \o KeysInOrder(ids \ {first})

\* the loop of GetBestNextHop over the remaining keys: <<bestNodeId, maxScore>>
RECURSIVE ScanNeighbors(_, _, _, _)
ScanNeighbors(table, keys, bestNodeId, maxScore) ==
    IF keys = <<>> THEN <<bestNodeId, maxScore>>
    ELSE LET id == Head(keys)
             currentScore == CurrentScore(table[id])
         IN  IF currentScore > maxScore
             THEN ScanNeighbors(table, Tail(keys), id, currentScore)
             ELSE ScanNeighbors(table, Tail(keys), bestNodeId, maxScore)

\* a scorer whose maxScore starts below every score, so that any neighbor wins
GetBestNextHop_AnyWins(table) ==
    IF DOMAIN table = {} THEN Zero
    ELSE ScanNeighbors(table, KeysInOrder(DOMAIN table), Zero, -1000)[1]

\* a scorer whose maxScore starts at 100, above some selectable scores
GetBestNextHop_HighStart(table) ==
    IF DOMAIN table = {} THEN Zero
    ELSE LET r == ScanNeighbors(table, KeysInOrder(DOMAIN table), Zero, 100)
         IN  IF r[2] = -1 THEN Zero ELSE r[1]

GetBestNextHop(table) ==
    IF DOMAIN table = {} THEN Zero
    ELSE LET r == ScanNeighbors(table, KeysInOrder(DOMAIN table), Zero, -1)
         IN  IF r[2] = -1 THEN Zero ELSE r[1]

(***************************************************************************)
(* The data plane.  Each operator gives the engine after the call and what *)
(* the call returns: [table, queue, ret] (ret = <<>> is the empty vector). *)
(***************************************************************************)
\* a forwarder that rewrites the whole flags byte and loses the frame's flag bits
DecrementTTL_Restamp(packet) ==
    [packet EXCEPT !.header.flagsAndTTL =
        [ttl |-> (packet.header.flagsAndTTL.ttl - 1) % 32,
         intneighbour |-> 0, visited |-> 0, myInternet |-> 0]]

\* outPacket.header.flagsAndTTL.ttl -= 1, on a five-bit field
DecrementTTL(packet) ==
    [packet EXCEPT !.header.flagsAndTTL.ttl = (@ - 1) % 32]

\* a terminal rule that only stops ttl 0
TTLExhausted_ZeroOnly(packet) == packet.header.flagsAndTTL.ttl < 1

\* outPacket.header.flagsAndTTL.ttl <= 1
TTLExhausted(packet) == packet.header.flagsAndTTL.ttl <= 1

\* a capacity test that is off by one
QueueHasRoom_OffByOne(queue) == Len(queue) <= QueueCap

\* packetQueue.size() < 50
QueueHasRoom(queue) == Len(queue) < QueueCap

\* a send that stores the packet before it asks for a route
SendPacket_QueuesFirst(table, queue, DestId, SenderId, OriginId, Sequence, payload) ==
    LET header == [ZeroHeader EXCEPT !.senderId = SenderId,
                                     !.destinationId = DestId,
                                     !.originId = OriginId,
                                     !.sequence = Sequence,
                                     !.flagsAndTTL.ttl = DefaultTTL,
                                     !.type = DATA]
        bestHop == GetBestNextHop(table)
        stored == IF QueueHasRoom(queue)
                  THEN Append(queue, [header |-> header, payload |-> payload])
                  ELSE queue
    IN  IF bestHop # Zero
        THEN [table |-> MarkVisited(table, bestHop),
              queue |-> stored,
              ret |-> Serialize([header |-> [header EXCEPT !.nextHopId = bestHop,
                                                           !.flagsAndTTL.visited = 1],
                                 payload |-> payload])]
        ELSE [table |-> table, queue |-> stored, ret |-> <<>>]

SendPacket(table, queue, DestId, SenderId, OriginId, Sequence, payload) ==
    LET header == [ZeroHeader EXCEPT !.senderId = SenderId,
                                     !.destinationId = DestId,
                                     !.originId = OriginId,
                                     !.sequence = Sequence,
                                     !.flagsAndTTL.ttl = DefaultTTL,
                                     !.type = DATA,
                                     !.nextHopId = Zero,
                                     !.flagsAndTTL.visited = 0]
        bestHop == GetBestNextHop(table)
    IN  IF bestHop # Zero
        THEN [table |-> MarkVisited(table, bestHop),
              queue |-> queue,
              ret |-> Serialize([header |-> [header EXCEPT !.nextHopId = bestHop,
                                                           !.flagsAndTTL.visited = 1],
                                 payload |-> payload])]
        ELSE [table |-> table,
              queue |-> IF QueueHasRoom(queue)
                        THEN Append(queue, [header |-> header, payload |-> payload])
                        ELSE queue,
              ret |-> <<>>]

\* a handler that routes a frame addressed to this node like any other
HandleData_ForwardsOwn(table, queue, data, outPacket, MyNodeId) ==
    LET d == Deserialize(data, outPacket)
        drop == [table |-> table, queue |-> queue, ret |-> <<>>, out |-> d.packet]
    IN  IF ~d.ok THEN drop
        ELSE IF TTLExhausted(d.packet) THEN drop
        ELSE LET decremented == DecrementTTL(d.packet)
                 bestHop == GetBestNextHop(table)
             IN  IF bestHop # Zero
                 THEN LET routed ==
                              [decremented EXCEPT !.header.nextHopId = bestHop,
                                                  !.header.flagsAndTTL.visited = 1]
                      IN  [table |-> MarkVisited(table, bestHop),
                           queue |-> queue,
                           ret |-> Serialize(routed),
                           out |-> routed]
                 ELSE [table |-> table,
                       queue |-> IF QueueHasRoom(queue)
                                 THEN Append(queue, decremented)
                                 ELSE queue,
                       ret |-> <<>>,
                       out |-> decremented]

\* also gives out, the caller's outPacket after the call
HandleData(table, queue, data, outPacket, MyNodeId) ==
    LET d == Deserialize(data, outPacket)
        drop == [table |-> table, queue |-> queue, ret |-> <<>>, out |-> d.packet]
    IN  IF ~d.ok THEN drop
        ELSE IF TTLExhausted(d.packet) THEN drop
        ELSE IF d.packet.header.destinationId = MyNodeId THEN drop
        ELSE LET decremented == DecrementTTL(d.packet)
                 bestHop == GetBestNextHop(table)
             IN  IF bestHop # Zero
                 THEN LET routed ==
                              [decremented EXCEPT !.header.nextHopId = bestHop,
                                                  !.header.flagsAndTTL.visited = 1]
                      IN  [table |-> MarkVisited(table, bestHop),
                           queue |-> queue,
                           ret |-> Serialize(routed),
                           out |-> routed]
                 ELSE [table |-> table,
                       queue |-> IF QueueHasRoom(queue)
                                 THEN Append(queue, decremented)
                                 ELSE queue,
                       ret |-> <<>>,
                       out |-> decremented]

\* the packet of the queue rewritten for the flush
Routed(packet, bestHop) ==
    [packet EXCEPT !.header.nextHopId = bestHop, !.header.flagsAndTTL.visited = 1]

\* a flush that emits the newest packet first
ProcessQueue_Reversed(table, queue) ==
    IF queue = <<>> THEN [table |-> table, queue |-> queue, batch |-> <<>>]
    ELSE LET bestHop == GetBestNextHop(table)
         IN  IF bestHop = Zero
             THEN [table |-> table, queue |-> queue, batch |-> <<>>]
             ELSE [table |-> MarkVisited(table, bestHop),
                   queue |-> <<>>,
                   batch |-> [i \in 1..Len(queue) |->
                       Serialize(Routed(queue[Len(queue) + 1 - i], bestHop))]]

\* a flush that clears the queue before it knows there is a hop
ProcessQueue_ClearsFirst(table, queue) ==
    IF queue = <<>> THEN [table |-> table, queue |-> queue, batch |-> <<>>]
    ELSE LET bestHop == GetBestNextHop(table)
         IN  IF bestHop = Zero
             THEN [table |-> table, queue |-> <<>>, batch |-> <<>>]
             ELSE [table |-> MarkVisited(table, bestHop),
                   queue |-> <<>>,
                   batch |-> [i \in 1..Len(queue) |-> Serialize(Routed(queue[i], bestHop))]]

\* a flush that returns the batch and forgets to clear the queue
ProcessQueue_KeepsQueue(table, queue) ==
    IF queue = <<>> THEN [table |-> table, queue |-> queue, batch |-> <<>>]
    ELSE LET bestHop == GetBestNextHop(table)
         IN  IF bestHop = Zero
             THEN [table |-> table, queue |-> queue, batch |-> <<>>]
             ELSE [table |-> MarkVisited(table, bestHop),
                   queue |-> queue,
                   batch |-> [i \in 1..Len(queue) |-> Serialize(Routed(queue[i], bestHop))]]

\* gives [table, queue, batch]
ProcessQueue(table, queue) ==
    IF queue = <<>> THEN [table |-> table, queue |-> queue, batch |-> <<>>]
    ELSE LET bestHop == GetBestNextHop(table)
         IN  IF bestHop = Zero
             THEN [table |-> table, queue |-> queue, batch |-> <<>>]
             ELSE [table |-> MarkVisited(table, bestHop),
                   queue |-> <<>>,
                   batch |-> [i \in 1..Len(queue) |-> Serialize(Routed(queue[i], bestHop))]]

(***************************************************************************)
(* The calls a host makes on one engine.  last records the latest call:    *)
(* its name and arguments, the engine before it (preTable, preQueue, and   *)
(* hop, what GetBestNextHop gave on preTable) and what it returned.        *)
(***************************************************************************)
Call(op, nodeId, data, my, ret, batch, ok, out) ==
    [op |-> op, nodeId |-> nodeId, data |-> data, my |-> my,
     hop |-> GetBestNextHop(neighborTable),
     preTable |-> neighborTable, preQueue |-> packetQueue, preNow |-> now,
     ret |-> ret, batch |-> batch, ok |-> ok, out |-> out]

\* the engines of a network: engine e is a THOR object whose host uses node
\* id e
NetEngines == 1..MaxEngines

NetId(e) == U32(0, e)

\* every engine as constructed, nothing in flight, no packet originated;
\* passes counts the HandleData calls that forwarded or queued the packet
NetInit ==
    [engines |-> [e \in NetEngines |-> [table |-> EmptyTable, queue |-> <<>>]],
     air |-> {},
     sent |-> FALSE,
     passes |-> 0]

Init ==
    /\ neighborTable = EmptyTable
    /\ packetQueue = <<>>
    /\ now = 0
    /\ last = [op |-> "new", nodeId |-> Zero, data |-> <<>>, my |-> Zero,
               hop |-> Zero, preTable |-> EmptyTable, preQueue |-> <<>>, preNow |-> 0,
               ret |-> <<>>, batch |-> <<>>, ok |-> TRUE, out |-> ZeroPacket]
    /\ net = NetInit

SerializeCall(packet) ==
    /\ last' = Call("Serialize", Zero, <<>>, Zero, Serialize(packet), <<>>, TRUE, packet)
    /\ UNCHANGED <<neighborTable, packetQueue, now, net>>

SerializeHeaderCall(header) ==
    /\ last' = Call("SerializeHeader", Zero, <<>>, Zero, SerializeHeader(header), <<>>,
                    TRUE, [header |-> header, payload |-> <<>>])
    /\ UNCHANGED <<neighborTable, packetQueue, now, net>>

DeserializeCall(data, outPacket) ==
    LET r == Deserialize(data, outPacket)
    IN  /\ last' = Call("Deserialize", Zero, data, Zero, <<>>, <<>>, r.ok, r.packet)
        /\ UNCHANGED <<neighborTable, packetQueue, now, net>>

DeserializeHeaderCall(data, outheader) ==
    LET r == DeserializeHeader(data, outheader)
    IN  /\ last' = Call("DeserializeHeader", Zero, data, Zero, <<>>, <<>>, r.ok,
                        [header |-> r.header, payload |-> <<>>])
        /\ UNCHANGED <<neighborTable, packetQueue, now, net>>

SendPacketCall(DestId, SenderId, OriginId, Sequence, payload) ==
    LET r == SendPacket(neighborTable, packetQueue,
                        DestId, SenderId, OriginId, Sequence, payload)
    IN  /\ neighborTable' = r.table
        /\ packetQueue' = r.queue
        /\ last' = Call("SendPacket", Zero, payload, SenderId, r.ret, <<>>, TRUE,
                        [header |-> [ZeroHeader EXCEPT !.destinationId = DestId,
                                                       !.senderId = SenderId,
                                                       !.originId = OriginId,
                                                       !.sequence = Sequence],
                         payload |-> payload])
        /\ UNCHANGED <<now, net>>

HandleDataCall(data, MyNodeId) ==
    LET r == HandleData(neighborTable, packetQueue, data, ZeroPacket, MyNodeId)
    IN  /\ neighborTable' = r.table
        /\ packetQueue' = r.queue
        /\ last' = Call("HandleData", Zero, data, MyNodeId, r.ret, <<>>,
                        Deserialize(data, ZeroPacket).ok, r.out)
        /\ UNCHANGED <<now, net>>

ProcessQueueCall ==
    LET r == ProcessQueue(neighborTable, packetQueue)
    IN  /\ neighborTable' = r.table
        /\ packetQueue' = r.queue
        /\ last' = Call("ProcessQueue", Zero, <<>>, Zero, <<>>, r.batch, TRUE, ZeroPacket)
        /\ UNCHANGED <<now, net>>

NeighborStoreCall(nodeId, rssi, hasInternetDirect, hasInternetIndirect, isVisited) ==
    /\ neighborTable' = NeighborStore(neighborTable, nodeId, rssi, hasInternetDirect,
                                      hasInternetIndirect, isVisited, now)
    /\ last' = Call("NeighborStore", nodeId, <<>>, Zero, <<>>, <<>>, TRUE, ZeroPacket)
    /\ UNCHANGED <<packetQueue, now, net>>

RemoveOldCall ==
    /\ neighborTable' = RemoveOld(neighborTable, now)
    /\ last' = Call("RemoveOld", Zero, <<>>, Zero, <<>>, <<>>, TRUE, ZeroPacket)
    /\ UNCHANGED <<packetQueue, now, net>>

GetBestNextHopCall ==
    /\ last' = Call("GetBestNextHop", GetBestNextHop(neighborTable), <<>>, Zero,
                    <<>>, <<>>, TRUE, ZeroPacket)
    /\ UNCHANGED <<neighborTable, packetQueue, now, net>>

HandleHelloCall(data) ==
    LET r == HandleHello(data, ZeroHeader)
    IN  /\ last' = Call("HandleHello", Zero, data, Zero, <<>>, <<>>, r.ok,
                        [header |-> r.header, payload |-> <<>>])
        /\ UNCHANGED <<neighborTable, packetQueue, now, net>>

\* an ACK handler that takes an ACK announcing internet as the sender's
\* release: it clears the sender's visited mark
HandleAckCall_ClearsVisited(data) ==
    LET r == HandleAck(data, ZeroHeader)
        from == r.header.senderId
        release == /\ r.ok
                   /\ r.header.flagsAndTTL.myInternet = 1
                   /\ from \in DOMAIN neighborTable
    IN  /\ neighborTable' = IF release
                            THEN [neighborTable EXCEPT ![from].isVisited = FALSE]
                            ELSE neighborTable
        /\ last' = Call("HandleAck", Zero, data, Zero, <<>>, <<>>, r.ok,
                        [header |-> r.header, payload |-> <<>>])
        /\ UNCHANGED <<packetQueue, now, net>>

HandleAckCall(data) ==
    LET r == HandleAck(data, ZeroHeader)
    IN  /\ last' = Call("HandleAck", Zero, data, Zero, <<>>, <<>>, r.ok,
                        [header |-> r.header, payload |-> <<>>])
        /\ UNCHANGED <<neighborTable, packetQueue, now, net>>

CreateHelloCall(DestId, SenderId, OriginId, Sequence) ==
    /\ last' = Call("CreateHello", Zero, <<>>, SenderId,
                    CreateHello(DestId, SenderId, OriginId, Sequence),
                    <<>>, TRUE, ZeroPacket)
    /\ UNCHANGED <<neighborTable, packetQueue, now, net>>

CreateACKCall(DestId, SenderId, OriginId, NextHopId, Sequence, myinternet, intneighbour) ==
    /\ last' = Call("CreateACK", Zero, <<>>, SenderId,
                    CreateACK(DestId, SenderId, OriginId, NextHopId, Sequence,
                              myinternet, intneighbour),
                    <<>>, TRUE, ZeroPacket)
    /\ UNCHANGED <<neighborTable, packetQueue, now, net>>

\* std::time(nullptr) moves on by seconds
Tick(seconds) ==
    /\ now + seconds <= MaxTime
    /\ now' = now + seconds
    /\ last' = Call("Tick", Zero, <<>>, Zero, <<>>, <<>>, TRUE, ZeroPacket)
    /\ UNCHANGED <<neighborTable, packetQueue, net>>

(***************************************************************************)
(* Spec: one engine driven by a host, from construction.                   *)
(***************************************************************************)
MyId == U32(0, 2)

Sink == U32(0, 9999)

Peer == U32(0, 1)

\* a sequence number with bytes in both halves
Seq1 == U32(1, 258)

SpecIds == {Zero, Peer, BROADCAST_ID}

DataHeader(type, ttl, marked, dest) ==
    [type |-> type,
     flagsAndTTL |-> [ttl |-> ttl,
                      intneighbour |-> IF marked THEN 1 ELSE 0,
                      visited |-> IF marked THEN 1 ELSE 0,
                      myInternet |-> IF marked THEN 1 ELSE 0],
     destinationId |-> dest, senderId |-> Peer, originId |-> U32(0, 7),
     nextHopId |-> IF marked THEN MyId ELSE Zero, sequence |-> Seq1]

\* the frames the radio hands to HandleData: fresh DATA frames at the ttl
\* boundaries for both destinations, a frame a forwarder already routed, a
\* frame of an unknown type, a HELLO beacon, and two that are too short
SpecFrames ==
    {Serialize([header |-> DataHeader(DATA, ttl, FALSE, dest), payload |-> <<72, 105>>]) :
        ttl \in {0, 1, 31}, dest \in {MyId, Sink}}
    \cup {Serialize([header |-> DataHeader(DATA, 2, TRUE, Sink), payload |-> <<>>]),
          Serialize([header |-> DataHeader(9, 3, FALSE, Sink), payload |-> <<9>>]),
          CreateHello(Zero, Peer, Peer, Seq1),
          SubSeq(CreateHello(Zero, Peer, Peer, Seq1), 1, HeaderSize - 1),
          <<>>}

SpecSendPacket ==
    /\ Len(packetQueue) < MaxQueue
    /\ SendPacketCall(Sink, Peer, Peer, Seq1, <<1, 2, 3>>)

SpecHandleData ==
    /\ Len(packetQueue) < MaxQueue
    /\ \E data \in SpecFrames : HandleDataCall(data, MyId)

SpecProcessQueue == ProcessQueueCall

\* the host stores Peer in every state; node ids 0 and 0xFFFFFFFF only as
\* fresh neighbors without internet
SpecNeighborStore ==
    \E nodeId \in SpecIds, hasInternetDirect \in BOOLEAN, isVisited \in BOOLEAN :
        /\ nodeId # Peer => ~hasInternetDirect /\ ~isVisited
        /\ NeighborStoreCall(nodeId, -90, hasInternetDirect, FALSE, isVisited)

SpecRemoveOld == RemoveOldCall

SpecGetBestNextHop == GetBestNextHopCall

SpecHandleHello ==
    \E data \in {CreateHello(Zero, Peer, Peer, Seq1), <<HELLO, 1>>} :
        HandleHelloCall(data)

SpecHandleAck ==
    \E data \in {CreateACK(MyId, Peer, Peer, MyId, Seq1, TRUE, TRUE), <<ACK>>} :
        HandleAckCall(data)

SpecCreateHello == CreateHelloCall(Zero, MyId, MyId, Seq1)

SpecCreateACK ==
    \E myinternet \in BOOLEAN :
        CreateACKCall(Peer, MyId, MyId, Peer, Seq1, myinternet, ~myinternet)

Next ==
    \/ SpecSendPacket
    \/ SpecHandleData
    \/ SpecProcessQueue
    \/ SpecNeighborStore
    \/ SpecRemoveOld
    \/ SpecGetBestNextHop
    \/ SpecHandleHello
    \/ SpecHandleAck
    \/ SpecCreateHello
    \/ SpecCreateACK

Spec == Init /\ [][Next]_vars

(***************************************************************************)
(* SpecCap: the same engine with the clock running and the queue filled to *)
(* its capacity.  Every packet that reaches the queue is the same packet   *)
(* (SendPacket's, and the frame whose ttl is one more), so that all fifty  *)
(* queue lengths are explored.                                             *)
(***************************************************************************)
CapFrame ==
    Serialize([header |-> [ZeroHeader EXCEPT !.type = DATA,
                                             !.flagsAndTTL.ttl = DefaultTTL + 1,
                                             !.destinationId = Sink,
                                             !.senderId = Peer,
                                             !.originId = Peer,
                                             !.sequence = Seq1],
               payload |-> <<1, 2, 3>>])

CapSendPacket == SendPacketCall(Sink, Peer, Peer, Seq1, <<1, 2, 3>>)

CapHandleData == HandleDataCall(CapFrame, MyId)

CapProcessQueue == ProcessQueueCall

CapNeighborStore ==
    \E rssi \in {-65, -90}, isVisited \in BOOLEAN :
        NeighborStoreCall(Peer, rssi, FALSE, FALSE, isVisited)

CapRemoveOld == RemoveOldCall

CapGetBestNextHop == GetBestNextHopCall

CapHandleHello == HandleHelloCall(CreateHello(Zero, Peer, Peer, Seq1))

CapHandleAck == HandleAckCall(CreateACK(MyId, Peer, Peer, MyId, Seq1, TRUE, FALSE))

CapTick == \E seconds \in {ExpirySeconds, ExpirySeconds + 1} : Tick(seconds)

NextCap ==
    \/ CapSendPacket
    \/ CapHandleData
    \/ CapProcessQueue
    \/ CapNeighborStore
    \/ CapRemoveOld
    \/ CapGetBestNextHop
    \/ CapHandleHello
    \/ CapHandleAck
    \/ CapTick

SpecCap == Init /\ [][NextCap]_vars

(***************************************************************************)
(* SpecAge: one engine with two neighbors that are stored at different     *)
(* times, so that one RemoveOld finds a stale entry next to a fresh one.   *)
(* Every call of the interface is made; the queue is offered at most       *)
(* MaxQueue packets.                                                       *)
(***************************************************************************)
\* node C of the simulation
Gateway == U32(0, 3)

AgeIds == {Peer, Gateway}

AgeSendPacket ==
    /\ Len(packetQueue) < MaxQueue
    /\ SendPacketCall(Sink, Peer, Peer, Seq1, <<1, 2, 3>>)

AgeHandleData ==
    /\ Len(packetQueue) < MaxQueue
    /\ HandleDataCall(CapFrame, MyId)

AgeProcessQueue == ProcessQueueCall

AgeNeighborStore ==
    \E nodeId \in AgeIds, isVisited \in BOOLEAN :
        NeighborStoreCall(nodeId, -90, FALSE, FALSE, isVisited)

AgeRemoveOld == RemoveOldCall

AgeGetBestNextHop == GetBestNextHopCall

AgeHandleHello == HandleHelloCall(CreateHello(Zero, Peer, Peer, Seq1))

AgeHandleAck == HandleAckCall(CreateACK(MyId, Peer, Peer, MyId, Seq1, TRUE, FALSE))

AgeTick == \E seconds \in {ExpirySeconds, ExpirySeconds + 1} : Tick(seconds)

NextAge ==
    \/ AgeSendPacket
    \/ AgeHandleData
    \/ AgeProcessQueue
    \/ AgeNeighborStore
    \/ AgeRemoveOld
    \/ AgeGetBestNextHop
    \/ AgeHandleHello
    \/ AgeHandleAck
    \/ AgeTick

SpecAge == Init /\ [][NextAge]_vars

(***************************************************************************)
(* SpecCodec: the four codec functions on well-formed packets and on raw   *)
(* byte strings, from a constructed engine.                                *)
(***************************************************************************)
CodecPayloads == {<<>>, <<0, 255>>}

\* ttl at both ends and in between, with flag patterns that tell the three
\* bits apart
CodecFlags ==
    {[ttl |-> 0, intneighbour |-> 0, visited |-> 0, myInternet |-> 0],
     [ttl |-> 31, intneighbour |-> 1, visited |-> 1, myInternet |-> 1],
     [ttl |-> DefaultTTL, intneighbour |-> 0, visited |-> 1, myInternet |-> 0],
     [ttl |-> 1, intneighbour |-> 1, visited |-> 0, myInternet |-> 1]}

\* destination, sender, origin, next hop and sequence: small ids, ids whose
\* four bytes all differ, and the ends of the range
CodecIds ==
    {<<Sink, Peer, Peer, Zero, Seq1>>,
     <<U32(43981, 4660), Seq1, Gateway, U32(4660, 43981), U32(258, 772)>>,
     <<BROADCAST_ID, Zero, BROADCAST_ID, BROADCAST_ID, Zero>>}

CodecHeaders ==
    {[type |-> type, flagsAndTTL |-> fl,
      destinationId |-> ids[1], senderId |-> ids[2], originId |-> ids[3],
      nextHopId |-> ids[4], sequence |-> ids[5]] :
        type \in {HELLO, ACK, DATA}, fl \in CodecFlags, ids \in CodecIds}

CodecPackets == {[header |-> h, payload |-> p] : h \in CodecHeaders, p \in CodecPayloads}

\* the twenty bytes after the flags byte: all zero, all ones, and two
\* patterns without repetition inside any field
CodecBodies ==
    {[i \in 1..20 |-> 0], [i \in 1..20 |-> 255],
     [i \in 1..20 |-> i], [i \in 1..20 |-> (37 * i) % 256]}

\* byte strings as the radio delivers them: any type byte, any flags byte
CodecFrames ==
    {<<type, fl>> \o body \o p :
        type \in {0, HELLO, ACK, DATA, 9, 255}, fl \in {0, 31, 165, 255},
        body \in CodecBodies, p \in CodecPayloads}
    \cup {<<>>, <<DATA>>, SubSeq(CreateHello(Zero, Peer, Peer, Seq1), 1, HeaderSize - 1)}

CodecSerialize == \E packet \in CodecPackets : SerializeCall(packet)

CodecSerializeHeader == \E header \in CodecHeaders : SerializeHeaderCall(header)

CodecDeserialize ==
    \E data \in CodecFrames,
       outPacket \in {ZeroPacket, [header |-> ZeroHeader, payload |-> <<7, 7, 7>>]} :
        DeserializeCall(data, outPacket)

CodecDeserializeHeader == \E data \in CodecFrames : DeserializeHeaderCall(data, ZeroHeader)

NextCodec ==
    \/ CodecSerialize
    \/ CodecSerializeHeader
    \/ CodecDeserialize
    \/ CodecDeserializeHeader

SpecCodec == Init /\ [][NextCodec]_vars

(***************************************************************************)
(* SpecNet: MaxEngines engines and one packet.  Engine 1 originates the    *)
(* packet with SendPacket; a frame an engine returned is in the air and    *)
(* the radio hands it to the HandleData of any engine; a queued packet     *)
(* leaves with ProcessQueue; hosts store each other as neighbors at any    *)
(* time, which also clears visited marks, so that engines can route the    *)
(* packet in a loop.  No engine is the destination.                        *)
(***************************************************************************)
NetNeighborStore ==
    \E e \in NetEngines, n \in NetEngines, isVisited \in BOOLEAN :
        /\ n # e
        /\ net' = [net EXCEPT !.engines[e].table =
                       NeighborStore(@, NetId(n), -90, FALSE, FALSE, isVisited, now)]
        /\ UNCHANGED <<neighborTable, packetQueue, now, last>>

\* engine 1 originates the packet
NetSendPacket ==
    LET r == SendPacket(net.engines[1].table, net.engines[1].queue,
                        Sink, NetId(1), NetId(1), Seq1, <<72, 105>>)
    IN  /\ ~net.sent
        /\ net' = [net EXCEPT !.engines[1] = [table |-> r.table, queue |-> r.queue],
                              !.air = IF r.ret = <<>> THEN @ ELSE @ \cup {r.ret},
                              !.sent = TRUE]
        /\ UNCHANGED <<neighborTable, packetQueue, now, last>>

NetHandleData ==
    \E e \in NetEngines, data \in net.air :
        LET r == HandleData(net.engines[e].table, net.engines[e].queue,
                            data, ZeroPacket, NetId(e))
            passed == r.ret # <<>> \/ r.queue # net.engines[e].queue
        IN  /\ net' = [net EXCEPT !.engines[e] = [table |-> r.table, queue |-> r.queue],
                                  !.air = IF r.ret = <<>>
                                          THEN @ \ {data}
                                          ELSE (@ \ {data}) \cup {r.ret},
                                  !.passes = IF passed THEN @ + 1 ELSE @]
            /\ UNCHANGED <<neighborTable, packetQueue, now, last>>

NetProcessQueue ==
    \E e \in NetEngines :
        LET r == ProcessQueue(net.engines[e].table, net.engines[e].queue)
        IN  /\ net.engines[e].queue # <<>>
            /\ net' = [net EXCEPT !.engines[e] = [table |-> r.table, queue |-> r.queue],
                                  !.air = @ \cup {r.batch[i] : i \in 1..Len(r.batch)}]
            /\ UNCHANGED <<neighborTable, packetQueue, now, last>>

NextNet ==
    \/ NetNeighborStore
    \/ NetSendPacket
    \/ NetHandleData
    \/ NetProcessQueue

SpecNet == Init /\ [][NextNet]_vars

(***************************************************************************)
(* SpecScorer: GetBestNextHop on every neighbor table of at most           *)
(* MaxScorerNeighbors entries over ScorerIds, with rssi on both sides of   *)
(* the two thresholds and every combination of the three flags.            *)
(***************************************************************************)
ScorerIds == {Zero, Peer, MyId, BROADCAST_ID}

ScorerRssi == {-81, -80, -50, -49}

ScorerInfos ==
    {NeighborInfo(0, rssi, d, i, v) :
        rssi \in ScorerRssi, d \in BOOLEAN, i \in BOOLEAN, v \in BOOLEAN}

ScorerTables ==
    UNION {[ids -> ScorerInfos] :
        ids \in {s \in SUBSET ScorerIds : Cardinality(s) <= MaxScorerNeighbors}}

InitScorer ==
    /\ neighborTable \in ScorerTables
    /\ packetQueue = <<>>
    /\ now = 0
    /\ last = [op |-> "new", nodeId |-> Zero, data |-> <<>>, my |-> Zero,
               hop |-> Zero, preTable |-> EmptyTable, preQueue |-> <<>>, preNow |-> 0,
               ret |-> <<>>, batch |-> <<>>, ok |-> TRUE, out |-> ZeroPacket]
    /\ net = NetInit

ScorerGetBestNextHop == GetBestNextHopCall

NextScorer == ScorerGetBestNextHop

SpecScorer == InitScorer /\ [][NextScorer]_vars

(***************************************************************************)
(* Properties                                                              *)
(***************************************************************************)
\* the header and the payload of the frame the latest call was given
InHeader == HeaderOfBytes(last.data)

InPayload == SubSeq(last.data, HeaderSize + 1, Len(last.data))

\* frame is header followed by payload, byte for byte
IsFrameOf(frame, header, payload) ==
    /\ Len(frame) = HeaderSize + Len(payload)
    /\ HeaderOfBytes(frame) = header
    /\ SubSeq(frame, HeaderSize + 1, Len(frame)) = payload

\* C1: the pending queue never holds more than 50 packets, and a SendPacket
\* or HandleData call that finds no route while the queue holds 50 returns
\* empty bytes and leaves the queue as it was.
C1_QueueNeverExceedsFifty ==
    /\ Len(packetQueue) <= 50
    /\ (/\ last.op \in {"SendPacket", "HandleData"}
        /\ Len(last.preQueue) = 50
        /\ last.hop = Zero)
       => (last.ret = <<>> /\ packetQueue = last.preQueue)

C1_Witness ==
    /\ last.op = "SendPacket"
    /\ Len(last.preQueue) = 50
    /\ last.hop = Zero
    /\ last.ret = <<>>
    /\ Len(packetQueue) = 50

\* a second case of C1: HandleData drops a forwardable frame on a full queue
C1_WitnessHandleData ==
    /\ last.op = "HandleData"
    /\ Len(last.preQueue) = 50
    /\ last.hop = Zero
    /\ InHeader.flagsAndTTL.ttl >= 2
    /\ InHeader.destinationId # last.my
    /\ packetQueue = last.preQueue

\* what a returned frame must be for C2: a DATA header with visited = 1 and
\* a next hop that is not 0 and is a key of the table the call found,
\* followed by payload
IsDataForward(frame, payload) ==
    /\ Len(frame) = HeaderSize + Len(payload)
    /\ HeaderOfBytes(frame).type = DATA
    /\ HeaderOfBytes(frame).flagsAndTTL.visited = 1
    /\ HeaderOfBytes(frame).nextHopId # Zero
    /\ HeaderOfBytes(frame).nextHopId \in DOMAIN last.preTable
    /\ SubSeq(frame, HeaderSize + 1, Len(frame)) = payload

\* C2: every non-empty byte string SendPacket or HandleData returns, and
\* every element of the list ProcessQueue returns, is a DATA header followed
\* by the packet's original payload, with visited = 1 and a nextHopId that
\* is not 0 and is the id of an entry of the neighbor table at the call.
C2_ForwardIsDataFrame ==
    /\ (last.op = "SendPacket" /\ last.ret # <<>>)
          => IsDataForward(last.ret, last.data)
    /\ (last.op = "HandleData" /\ last.ret # <<>>)
          => IsDataForward(last.ret, InPayload)
    /\ last.op = "ProcessQueue"
          => \A i \in 1..Len(last.batch) :
                IsDataForward(last.batch[i], last.preQueue[i].payload)

\* C3: HandleData on a well-formed frame whose ttl is 0 or 1 returns empty
\* bytes, enqueues nothing and changes no neighbor-table entry; a frame that
\* is forwarded or queued arrived with ttl >= 2.
C3_TTLExhaustedIsDropped ==
    (last.op = "HandleData" /\ last.ok)
    => /\ InHeader.flagsAndTTL.ttl <= 1
            => /\ last.ret = <<>>
               /\ packetQueue = last.preQueue
               /\ neighborTable = last.preTable
       /\ (last.ret # <<>> \/ packetQueue # last.preQueue)
            => InHeader.flagsAndTTL.ttl >= 2

\* a frame with ttl 1 for another node, at an engine that has a usable hop
C3_Witness ==
    /\ last.op = "HandleData"
    /\ last.ok
    /\ InHeader.type = DATA
    /\ InHeader.flagsAndTTL.ttl = 1
    /\ InHeader.destinationId # last.my
    /\ last.hop # Zero
    /\ last.ret = <<>>

\* C4: a frame with ttl >= 2 for another node, at an engine whose scorer
\* gives h # 0, is returned with ttl one less, nextHopId = h, visited = 1 and
\* every other header field and the payload as they arrived; h is marked
\* visited and the queue is unchanged.
C4_ForwardKeepsFrame ==
    (/\ last.op = "HandleData"
     /\ last.ok
     /\ InHeader.flagsAndTTL.ttl >= 2
     /\ InHeader.destinationId # last.my
     /\ last.hop # Zero)
    => /\ IsFrameOf(last.ret,
                    [type |-> InHeader.type,
                     flagsAndTTL |-> [ttl |-> InHeader.flagsAndTTL.ttl - 1,
                                      intneighbour |-> InHeader.flagsAndTTL.intneighbour,
                                      visited |-> 1,
                                      myInternet |-> InHeader.flagsAndTTL.myInternet],
                     destinationId |-> InHeader.destinationId,
                     senderId |-> InHeader.senderId,
                     originId |-> InHeader.originId,
                     nextHopId |-> last.hop,
                     sequence |-> InHeader.sequence],
                    InPayload)
       /\ last.hop \in DOMAIN neighborTable
       /\ neighborTable[last.hop].isVisited
       /\ packetQueue = last.preQueue

\* the frame that arrives with its internet bits set is forwarded to a hop
\* that was not yet visited, past a queue that holds a packet
C4_Witness ==
    /\ last.op = "HandleData"
    /\ last.ok
    /\ InHeader.flagsAndTTL.ttl >= 2
    /\ InHeader.flagsAndTTL.myInternet = 1
    /\ InHeader.destinationId # last.my
    /\ last.hop # Zero
    /\ ~last.preTable[last.hop].isVisited
    /\ last.ret # <<>>
    /\ packetQueue # <<>>

\* the score the specification gives a neighbor: a base by class plus the
\* RSSI adjustment, with both -50 and -80 inside the ideal band
RefScore(info) ==
    (IF info.hasInternetDirect THEN 300
     ELSE IF info.hasInternetIndirect THEN 200
     ELSE IF ~info.isVisited THEN 100
     ELSE 10)
    + (IF info.rssi > -50 THEN -50
       ELSE IF info.rssi < -80 THEN -20
       ELSE 50)

\* the keys of table whose score no other key exceeds
RefWinners(table) ==
    {a \in DOMAIN table :
        \A b \in DOMAIN table : RefScore(table[b]) <= RefScore(table[a])}

RefLowest(ids) == CHOOSE a \in ids : \A b \in ids : a = b \/ Less(a, b)

AllBelowZero(table) == \A a \in DOMAIN table : RefScore(table[a]) < 0

\* C5: GetBestNextHop gives the lowest node id among the neighbors with the
\* maximum score when that maximum is >= 0, and gives 0 if and only if the
\* table is empty or every neighbor scores below 0.
C5_ScorerMatchesReference ==
    last.op = "GetBestNextHop"
    => /\ (DOMAIN last.preTable # {} /\ ~AllBelowZero(last.preTable))
            => last.hop = RefLowest(RefWinners(last.preTable))
       /\ last.hop = Zero
            <=> (DOMAIN last.preTable = {} \/ AllBelowZero(last.preTable))

InIdealBand(info) == info.rssi >= -80 /\ info.rssi <= -50

\* C8: when some neighbor has direct internet and rssi in [-80, -50], the
\* result is a neighbor with direct internet.
C8_DirectInBandDominates ==
    (/\ last.op = "GetBestNextHop"
     /\ \E a \in DOMAIN last.preTable :
           last.preTable[a].hasInternetDirect /\ InIdealBand(last.preTable[a]))
    => /\ last.hop \in DOMAIN last.preTable
       /\ last.preTable[last.hop].hasInternetDirect

\* the direct neighbor has the higher id and the other one has indirect
\* internet in the ideal band
C8_Witness ==
    /\ last.op = "GetBestNextHop"
    /\ DOMAIN last.preTable = {Peer, MyId}
    /\ last.preTable[MyId].hasInternetDirect
    /\ InIdealBand(last.preTable[MyId])
    /\ ~last.preTable[Peer].hasInternetDirect
    /\ last.preTable[Peer].hasInternetIndirect
    /\ InIdealBand(last.preTable[Peer])
    /\ last.hop = MyId

\* C9: a flush of a non-empty queue at an engine whose scorer gives h # 0
\* returns one frame per queued packet, in the order they were enqueued,
\* each the queued packet with nextHopId = h and visited = 1; afterwards the
\* queue is empty and h is marked visited.
C9_FlushIsFIFO ==
    (last.op = "ProcessQueue" /\ last.preQueue # <<>> /\ last.hop # Zero)
    => /\ Len(last.batch) = Len(last.preQueue)
       /\ \A i \in 1..Len(last.preQueue) :
             IsFrameOf(last.batch[i],
                       [last.preQueue[i].header EXCEPT !.nextHopId = last.hop,
                                                       !.flagsAndTTL.visited = 1],
                       last.preQueue[i].payload)
       /\ packetQueue = <<>>
       /\ last.hop \in DOMAIN neighborTable
       /\ neighborTable[last.hop].isVisited

\* two different packets were queued and are flushed to a fresh hop
C9_Witness ==
    /\ last.op = "ProcessQueue"
    /\ Len(last.preQueue) = 2
    /\ last.preQueue[1] # last.preQueue[2]
    /\ last.hop # Zero
    /\ ~last.preTable[last.hop].isVisited
    /\ Len(last.batch) = 2

\* C10: a flush at an engine whose scorer gives 0, or whose queue is empty,
\* returns an empty list and leaves the queue and the neighbor table as
\* they were.
C10_NoRouteKeepsQueue ==
    (last.op = "ProcessQueue" /\ (last.hop = Zero \/ last.preQueue = <<>>))
    => /\ last.batch = <<>>
       /\ packetQueue = last.preQueue
       /\ neighborTable = last.preTable

\* packets are waiting and the table is not empty, yet there is no hop
C10_Witness ==
    /\ last.op = "ProcessQueue"
    /\ Len(last.preQueue) = 2
    /\ DOMAIN last.preTable # {}
    /\ last.hop = Zero
    /\ packetQueue = last.preQueue

\* C11: every packet held in the pending queue has nextHopId = 0 and
\* visited = 0 in its header, whoever enqueued it.
C11_QueuedPacketsUnrouted ==
    \A i \in 1..Len(packetQueue) :
        /\ packetQueue[i].header.nextHopId = Zero
        /\ packetQueue[i].header.flagsAndTTL.visited = 0

\* C12: NeighborStore with id 0 or 0xFFFFFFFF leaves the table unchanged,
\* the table never has an entry keyed 0 or 0xFFFFFFFF, and no data-plane
\* call emits a frame with nextHopId = 0xFFFFFFFF.
C12_ReservedIdsRejected ==
    /\ (last.op = "NeighborStore" /\ last.nodeId \in {Zero, BROADCAST_ID})
          => neighborTable = last.preTable
    /\ Zero \notin DOMAIN neighborTable
    /\ BROADCAST_ID \notin DOMAIN neighborTable
    /\ (last.op \in {"SendPacket", "HandleData"} /\ Len(last.ret) >= HeaderSize)
          => HeaderOfBytes(last.ret).nextHopId # BROADCAST_ID
    /\ last.op = "ProcessQueue"
          => \A i \in 1..Len(last.batch) :
                HeaderOfBytes(last.batch[i]).nextHopId # BROADCAST_ID

\* C13: decoding succeeds exactly on inputs of at least 22 bytes whose type
\* byte is 1, 2 or 3; when it fails HandleHello and HandleAck report failure
\* and HandleData returns empty bytes with queue and table unchanged.
C13_DecodeValidatesType ==
    last.op \in {"HandleHello", "HandleAck", "HandleData"}
    => /\ last.ok <=> (/\ Len(last.data) >= 22
                       /\ last.data[1] \in {1, 2, 3})
       /\ (last.op = "HandleData" /\ (Len(last.data) < 22 \/ last.data[1] \notin {1, 2, 3}))
             => /\ last.ret = <<>>
                /\ packetQueue = last.preQueue
                /\ neighborTable = last.preTable

\* the header SendPacket builds from its arguments before routing
SentHeader ==
    [type |-> 3,
     flagsAndTTL |-> [ttl |-> 15, intneighbour |-> 0, visited |-> 0, myInternet |-> 0],
     destinationId |-> last.out.header.destinationId,
     senderId |-> last.out.header.senderId,
     originId |-> last.out.header.originId,
     nextHopId |-> Zero,
     sequence |-> last.out.header.sequence]

\* table differs from before at most in that hop is now visited
OnlyMarked(before, after, hop) ==
    /\ DOMAIN after = DOMAIN before
    /\ hop \in DOMAIN before
    /\ after[hop] = [before[hop] EXCEPT !.isVisited = TRUE]
    /\ \A k \in DOMAIN before \ {hop} : after[k] = before[k]

\* C14: SendPacket builds a DATA header with ttl 15 and its four arguments;
\* with a hop h # 0 it returns that frame with nextHopId = h and visited = 1,
\* marks h visited and leaves the queue alone; with no hop it returns empty
\* bytes, leaves the table alone and appends exactly that packet to a queue
\* that held fewer than 50.
C14_SendPacketRoutesOrQueues ==
    last.op = "SendPacket"
    => /\ last.hop # Zero
          => /\ IsFrameOf(last.ret,
                          [SentHeader EXCEPT !.nextHopId = last.hop,
                                             !.flagsAndTTL.visited = 1],
                          last.data)
             /\ OnlyMarked(last.preTable, neighborTable, last.hop)
             /\ packetQueue = last.preQueue
       /\ last.hop = Zero
          => /\ last.ret = <<>>
             /\ neighborTable = last.preTable
             /\ Len(last.preQueue) < 50
                   => packetQueue = Append(last.preQueue,
                                           [header |-> SentHeader, payload |-> last.data])

\* a packet is already waiting when the send finds a fresh hop
C14_Witness ==
    /\ last.op = "SendPacket"
    /\ last.hop # Zero
    /\ ~last.preTable[last.hop].isVisited
    /\ last.preQueue # <<>>
    /\ last.ret # <<>>

\* a second case of C14: neighbors are known but none is usable, and the
\* packet goes behind one that is already waiting
C14_WitnessQueued ==
    /\ last.op = "SendPacket"
    /\ last.hop = Zero
    /\ DOMAIN last.preTable # {}
    /\ Len(last.preQueue) = 1
    /\ Len(packetQueue) = 2

\* C15: HandleData on a frame whose destinationId is MyNodeId returns empty
\* bytes whatever the frame's ttl, enqueues nothing and marks no neighbor,
\* even when the table offers a hop.
C15_OwnFrameIsConsumed ==
    (/\ last.op = "HandleData"
     /\ last.ok
     /\ InHeader.destinationId = last.my)
    => /\ last.ret = <<>>
       /\ packetQueue = last.preQueue
       /\ neighborTable = last.preTable

\* the frame is for this node, still has hops to spend, and a fresh hop is
\* on offer
C15_Witness ==
    /\ last.op = "HandleData"
    /\ last.ok
    /\ InHeader.type = 3
    /\ InHeader.destinationId = last.my
    /\ InHeader.flagsAndTTL.ttl = 31
    /\ last.hop # Zero
    /\ ~last.preTable[last.hop].isVisited
    /\ last.ret = <<>>

\* a second case of C15: the frame is for this node and no hop exists, so
\* any other frame would have been queued
C15_WitnessNoHop ==
    /\ last.op = "HandleData"
    /\ last.ok
    /\ InHeader.destinationId = last.my
    /\ InHeader.flagsAndTTL.ttl = 31
    /\ last.hop = Zero
    /\ packetQueue = last.preQueue

\* C16: after RemoveOld the table holds exactly the entries it held before
\* that were seen at most 30 seconds ago, each unchanged, and the queue is
\* as it was; NeighborStore stamps its entry with the current time and no
\* other call sets or changes a lastSeen.
C16_RemoveOldKeepsFresh ==
    /\ last.op = "RemoveOld"
          => /\ DOMAIN neighborTable =
                   {k \in DOMAIN last.preTable : last.preNow - last.preTable[k].lastSeen <= 30}
             /\ \A k \in DOMAIN neighborTable :
                   /\ neighborTable[k] = last.preTable[k]
                   /\ now - neighborTable[k].lastSeen <= 30
             /\ packetQueue = last.preQueue
    /\ last.op = "NeighborStore"
          => /\ neighborTable[last.nodeId].lastSeen = now
             /\ \A k \in DOMAIN neighborTable \ {last.nodeId} :
                   k \in DOMAIN last.preTable /\ neighborTable[k] = last.preTable[k]
    /\ last.op \notin {"NeighborStore", "new"}
          => \A k \in DOMAIN neighborTable :
                /\ k \in DOMAIN last.preTable
                /\ neighborTable[k].lastSeen = last.preTable[k].lastSeen

\* one entry is stale and goes, the other is exactly 30 seconds old and
\* stays, and a packet is waiting
C16_Witness ==
    /\ last.op = "RemoveOld"
    /\ DOMAIN last.preTable = AgeIds
    /\ \E k \in AgeIds : last.preNow - last.preTable[k].lastSeen > 30
    /\ \E k \in AgeIds : last.preNow - last.preTable[k].lastSeen = 30
    /\ Cardinality(DOMAIN neighborTable) = 1
    /\ packetQueue # <<>>

\* a second case of C16: an entry that is 31 seconds old goes and a fresh
\* one stays
C16_WitnessJustStale ==
    /\ last.op = "RemoveOld"
    /\ DOMAIN last.preTable = AgeIds
    /\ \E k \in AgeIds : last.preNow - last.preTable[k].lastSeen = 31
    /\ \E k \in AgeIds : k \in DOMAIN neighborTable

\* a second case of C16: a data-plane call marks a hop that was stored
\* earlier and its lastSeen stays in the past
C16_WitnessMarked ==
    /\ last.op \in {"SendPacket", "HandleData", "ProcessQueue"}
    /\ last.hop # Zero
    /\ neighborTable[last.hop].isVisited
    /\ neighborTable[last.hop].lastSeen < now

\* C17: HandleHello, HandleAck, CreateHello and CreateACK leave the neighbor
\* table and the queue as they were; and an entry that was visited before a
\* call and is not visited after it is the entry a NeighborStore call just
\* wrote.
C17_BeaconsChangeNothing ==
    /\ last.op \in {"HandleHello", "HandleAck", "CreateHello", "CreateACK"}
          => /\ neighborTable = last.preTable
             /\ packetQueue = last.preQueue
    /\ \A k \in DOMAIN neighborTable \cap DOMAIN last.preTable :
          (last.preTable[k].isVisited /\ ~neighborTable[k].isVisited)
          => (last.op = "NeighborStore" /\ last.nodeId = k)

\* an ACK announcing internet arrives from a neighbor that is marked visited
\* and recorded without internet, while a packet is waiting
C17_Witness ==
    /\ last.op = "HandleAck"
    /\ last.ok
    /\ last.out.header.type = 2
    /\ last.out.header.flagsAndTTL.myInternet = 1
    /\ last.out.header.senderId \in DOMAIN neighborTable
    /\ neighborTable[last.out.header.senderId].isVisited
    /\ ~neighborTable[last.out.header.senderId].hasInternetDirect
    /\ packetQueue # <<>>

\* a second case of C17: a HELLO arrives from a sender the table does not
\* hold
C17_WitnessHello ==
    /\ last.op = "HandleHello"
    /\ last.ok
    /\ last.out.header.type = 1
    /\ last.out.header.senderId \notin DOMAIN neighborTable

\* a third case of C17: the host clears a visited mark with NeighborStore
C17_WitnessCleared ==
    /\ last.op = "NeighborStore"
    /\ last.nodeId \in DOMAIN last.preTable
    /\ last.preTable[last.nodeId].isVisited
    /\ ~neighborTable[last.nodeId].isVisited

\* C18: decoding the encoding of a packet with a valid type gives the packet
\* back; encoding the decoding of a byte string of at least 22 bytes with a
\* valid type byte gives the byte string back; an encoded header is 22 bytes
\* and a frame is 22 bytes plus the payload.
C18_CodecRoundTrips ==
    /\ (last.op = "Serialize" /\ last.out.header.type \in {1, 2, 3})
          => /\ Len(last.ret) = 22 + Len(last.out.payload)
             /\ Deserialize(last.ret, ZeroPacket) = [ok |-> TRUE, packet |-> last.out]
    /\ (last.op = "SerializeHeader" /\ last.out.header.type \in {1, 2, 3})
          => /\ Len(last.ret) = 22
             /\ DeserializeHeader(last.ret, ZeroHeader) =
                   [ok |-> TRUE, header |-> last.out.header]
    /\ (/\ last.op = "Deserialize"
        /\ Len(last.data) >= 22
        /\ last.data[1] \in {1, 2, 3})
          => /\ last.ok
             /\ Serialize(last.out) = last.data
    /\ (/\ last.op = "DeserializeHeader"
        /\ Len(last.data) >= 22
        /\ last.data[1] \in {1, 2, 3})
          => /\ last.ok
             /\ SerializeHeader(last.out.header) = SubSeq(last.data, 1, 22)

\* a packet whose id fields have four different bytes each, with ttl 1, a
\* mixed flag pattern and a payload, has been encoded
C18_Witness ==
    /\ last.op = "Serialize"
    /\ last.out.header.type = 3
    /\ last.out.header.flagsAndTTL =
          [ttl |-> 1, intneighbour |-> 1, visited |-> 0, myInternet |-> 1]
    /\ last.out.header.destinationId = U32(43981, 4660)
    /\ last.out.header.sequence = U32(258, 772)
    /\ last.out.payload = <<0, 255>>
    /\ Len(last.ret) = 24

\* a second case of C18: a byte string with a mixed flags byte, no repeated
\* byte inside any field and a payload has been decoded
C18_WitnessDecode ==
    /\ last.op = "Deserialize"
    /\ Len(last.data) = 24
    /\ last.data[1] = 2
    /\ last.data[2] = 165
    /\ last.data[3] = 37
    /\ last.ok
    /\ last.out.payload = <<0, 255>>

\* the ttl of every frame in flight and of every queued packet of the network
NetTTLs ==
    {HeaderOfBytes(data).flagsAndTTL.ttl : data \in net.air}
    \cup UNION {{net.engines[e].queue[i].header.flagsAndTTL.ttl :
                    i \in 1..Len(net.engines[e].queue)} : e \in NetEngines}

\* C19: a packet originated with ttl 15 is forwarded or queued by HandleData
\* at most 14 times, whichever engines the frames reach: wherever the packet
\* is, in flight or in a queue, its ttl is 15 less the number of HandleData
\* calls that passed it on (each takes exactly 1, ProcessQueue takes
\* nothing, the field never wraps) and it is at least 1.
C19_TTLBoundsForwarding ==
    /\ net.passes <= 14
    /\ \A ttl \in NetTTLs : ttl = 15 - net.passes /\ ttl >= 1

\* the packet has been passed on 14 times and is in flight with ttl 1,
\* addressed to a next hop
C19_Witness ==
    /\ net.passes = 14
    /\ \E data \in net.air :
          /\ HeaderOfBytes(data).flagsAndTTL.ttl = 1
          /\ HeaderOfBytes(data).nextHopId # Zero

\* a second case of C19: after 14 passes the packet was handed to an engine
\* once more and is nowhere any longer
C19_WitnessEnded ==
    /\ net.sent
    /\ net.passes = 14
    /\ NetTTLs = {}

\* a third case of C19: the packet waits in a queue part of the way, then a
\* flush puts it in flight with the ttl it had
C19_WitnessQueued ==
    /\ net.passes = 7
    /\ net.air = {}
    /\ \E e \in NetEngines :
          /\ Len(net.engines[e].queue) = 1
          /\ net.engines[e].queue[1].header.flagsAndTTL.ttl = 8

\* C20: SendPacket, HandleData and ProcessQueue leave the keys of the
\* neighbor table and every entry's rssi, lastSeen, hasInternetDirect and
\* hasInternetIndirect as they were, and change isVisited only by setting it
\* on the hop the scorer gave; GetBestNextHop changes nothing, and asking
\* again gives the same id.
C20_DataPlaneOnlyMarks ==
    /\ last.op \in {"SendPacket", "HandleData", "ProcessQueue"}
          => /\ DOMAIN neighborTable = DOMAIN last.preTable
             /\ \A k \in DOMAIN neighborTable :
                   /\ neighborTable[k].rssi = last.preTable[k].rssi
                   /\ neighborTable[k].lastSeen = last.preTable[k].lastSeen
                   /\ neighborTable[k].hasInternetDirect = last.preTable[k].hasInternetDirect
                   /\ neighborTable[k].hasInternetIndirect =
                         last.preTable[k].hasInternetIndirect
                   /\ neighborTable[k].isVisited # last.preTable[k].isVisited
                         => (k = last.hop /\ k # Zero /\ neighborTable[k].isVisited)
    /\ last.op = "GetBestNextHop"
          => /\ neighborTable = last.preTable
             /\ packetQueue = last.preQueue
             /\ GetBestNextHop(neighborTable) = last.nodeId

\* a frame is forwarded to a fresh neighbor with direct internet while
\* another neighbor is in the table
C20_Witness ==
    /\ last.op = "HandleData"
    /\ last.ret # <<>>
    /\ Cardinality(DOMAIN last.preTable) >= 2
    /\ last.preTable[last.hop].hasInternetDirect
    /\ ~last.preTable[last.hop].isVisited
    /\ neighborTable[last.hop].isVisited
    /\ neighborTable[last.hop].rssi = -90

\* a second case of C20: a flush marks its hop
C20_WitnessFlush ==
    /\ last.op = "ProcessQueue"
    /\ last.batch # <<>>
    /\ Cardinality(DOMAIN last.preTable) >= 2
    /\ neighborTable # last.preTable

\* a third case of C20: the scorer is asked on a table with a usable hop
C20_WitnessScorer ==
    /\ last.op = "GetBestNextHop"
    /\ last.nodeId # Zero
    /\ Cardinality(DOMAIN neighborTable) >= 2

\* frame carries packet: the same payload and the same header but for the
\* two fields a flush rewrites
CarriesPacket(frame, packet) ==
    /\ Len(frame) = HeaderSize + Len(packet.payload)
    /\ SubSeq(frame, HeaderSize + 1, Len(frame)) = packet.payload
    /\ [HeaderOfBytes(frame) EXCEPT !.nextHopId = Zero, !.flagsAndTTL.visited = 0]
          = [packet.header EXCEPT !.nextHopId = Zero, !.flagsAndTTL.visited = 0]

\* C21: the queue neither loses nor duplicates a packet.  A ProcessQueue
\* call either leaves the queue as it was and returns nothing, or empties it
\* and returns one frame per packet it held, in place; a SendPacket or
\* HandleData call leaves the packets already queued in place and unchanged
\* and adds at most one behind them, and none when it found a route or the
\* queue held 50; every other call leaves the queue as it was; and a packet
\* given to SendPacket is returned, or appended, or dropped only at 50.
C21_QueueKeepsPackets ==
    /\ last.op = "ProcessQueue"
          => \/ packetQueue = last.preQueue /\ last.batch = <<>>
             \/ /\ packetQueue = <<>>
                /\ Len(last.batch) = Len(last.preQueue)
                /\ \A i \in 1..Len(last.preQueue) :
                      CarriesPacket(last.batch[i], last.preQueue[i])
    /\ last.op \in {"SendPacket", "HandleData"}
          => /\ SubSeq(packetQueue, 1, Len(last.preQueue)) = last.preQueue
             /\ Len(packetQueue) <= Len(last.preQueue) + 1
             /\ (last.hop # Zero \/ Len(last.preQueue) >= 50)
                   => packetQueue = last.preQueue
    /\ last.op = "SendPacket"
          => \/ /\ last.ret # <<>>
                /\ SubSeq(last.ret, HeaderSize + 1, Len(last.ret)) = last.data
             \/ /\ Len(packetQueue) = Len(last.preQueue) + 1
                /\ packetQueue[Len(packetQueue)].payload = last.data
             \/ Len(last.preQueue) >= 50
    /\ last.op \notin {"new", "ProcessQueue", "SendPacket", "HandleData"}
          => packetQueue = last.preQueue

\* a full queue is flushed: 50 frames come back and nothing is left
C21_Witness ==
    /\ last.op = "ProcessQueue"
    /\ Len(last.preQueue) = 50
    /\ Len(last.batch) = 50
    /\ packetQueue = <<>>

\* a second case of C21: a send finds a route while the queue is full
C21_WitnessRoutedAtFull ==
    /\ last.op = "SendPacket"
    /\ last.hop # Zero
    /\ last.ret # <<>>
    /\ Len(last.preQueue) = 50
    /\ packetQueue = last.preQueue

\* a third case of C21: the only neighbor expires while packets wait
C21_WitnessExpiry ==
    /\ last.op = "RemoveOld"
    /\ neighborTable # last.preTable
    /\ last.preQueue # <<>>
    /\ packetQueue = last.preQueue

====
